---- MODULE Spec2Model ----
(***************************************************************************)
(* Travel planning assistant: the session store (session_manager.py), the  *)
(* conversation graph of TravelPlanningAgent (travel_agent.py) and the     *)
(* handlers of backend.py.                                                 *)
(*                                                                         *)
(* Conventions.  A Python dict is a function whose DOMAIN is its key set.  *)
(* A text value is Str(tokens): string concatenation is concatenation of   *)
(* the token sequences; Python's None is the value None.  A confidence is  *)
(* held in tenths (0.7 is 7).  The clock counts hours.  The handlers are   *)
(* coroutines of one event loop and the graph is invoked synchronously     *)
(* (travel_agent.py:217), so no other handler runs while a /chat call is   *)
(* between its first and its last statement.  delete_session and           *)
(* cleanup_old_sessions have no caller in a handler: they are taken to run *)
(* at any time, a /chat call in progress or not.                           *)
(***************************************************************************)
EXTENDS Integers, Sequences, FiniteSets, TLC

VARIABLES
    sessions,     \* SessionManager.sessions
    now,          \* the reading of datetime.now
    pc,           \* where the call in progress stands
    req,          \* the arguments of the process_message call
    state,        \* the state dict threaded through the graph
    graphResult,  \* what _run_graph_async returns
    response,     \* what process_message returns
    calls,        \* the completion calls made, each with its reply
    stages,       \* the graph nodes run, in order
    chatSession,  \* the local session of the /chat call in progress
    otherChat,    \* a second /chat call, reduced to its store operations
    lastOp        \* the last step taken and what it returned

vars == <<sessions, now, pc, req, state, graphResult, response,
          calls, stages, chatSession, otherChat, lastOp>>

(***************************************************************************)
(* Bounds of the model.                                                    *)
(***************************************************************************)
MaxTime == 2
MaxHours == 2
MaxTurns == 2
MaxHist == 8
MaxSmallHist == 1

(***************************************************************************)
(* Constants of the program.                                               *)
(***************************************************************************)
ConfidenceThreshold == 7
DefaultConfidence == 5
HistoryWindow == 6
FollowupLimit == 2

SessionIds == {"s1", "s2"}
PrefKeys == {"budget"}
PrefValues == {"low"}
Contexts == {[destination |-> "Japan"]}

(***************************************************************************)
(* Values.                                                                 *)
(***************************************************************************)
EmptyDict == [k \in {} |-> {}]

Str(toks) == [kind |-> "str", val |-> toks]

None == [kind |-> "none", val |-> <<>>]

Num(n) == [kind |-> "num", val |-> n]

\* dict.get(key, default)
DictGet(d, key, default) == IF key \in DOMAIN d THEN d[key] ELSE default

\* dict.update(other): the keys of other win
DictUpdate(d, other) == other @@ d

\* datetime.isoformat(): the text of a time
isoformat(t) == [fmt |-> "iso", t |-> t]

\* datetime.fromisoformat(text): the time of a well-formed text, else
\* ValueError.  The replace('Z', '+00:00') of line 71 changes no text that
\* isoformat wrote.
fromisoformat(s) ==
    IF s.fmt = "iso" THEN [ok |-> TRUE, t |-> s.t] ELSE [ok |-> FALSE, t |-> 0]

\* truthiness of session_data.get("last_updated"): None and the empty text
\* are falsy
Truthy(s) == s.fmt \notin {"none", "empty"}

(***************************************************************************)
(* SessionManager (session_manager.py).  Each operator maps the sessions   *)
(* dict ss and the clock reading t to the dict after the call.             *)
(***************************************************************************)
NewSession(t) ==
    [created_at |-> isoformat(t), last_updated |-> isoformat(t),
     messages |-> <<>>, user_preferences |-> EmptyDict,
     travel_context |-> EmptyDict]
\* get_session were it to store a new record whether or not the id is stored
get_session_Recreate(ss, sid, t) == (sid :> NewSession(t)) @@ ss


get_session(ss, sid, t) ==
    IF sid \notin DOMAIN ss
    THEN (sid :> NewSession(t)) @@ ss
    ELSE [ss EXCEPT ![sid] = DictUpdate(@, [last_updated |-> isoformat(t)])]

\* update_session were it to merge the dict of a stored id as it is given
update_session_Unstamped(ss, sid, session_data, t) ==
    IF sid \in DOMAIN ss
    THEN [ss EXCEPT ![sid] = DictUpdate(@, session_data)]
    ELSE LET data == DictUpdate(session_data,
                        [created_at |-> isoformat(t),
                         last_updated |-> isoformat(t)])
         IN  (sid :> data) @@ ss

update_session(ss, sid, session_data, t) ==
    IF sid \in DOMAIN ss
    THEN LET data == DictUpdate(session_data, [last_updated |-> isoformat(t)])
         IN  [ss EXCEPT ![sid] = DictUpdate(@, data)]
    ELSE LET data == DictUpdate(session_data,
                        [created_at |-> isoformat(t),
                         last_updated |-> isoformat(t)])
         IN  (sid :> data) @@ ss
\* clear_session were it to reset the whole record of a stored id
clear_session_Reset(ss, sid, t) ==
    IF sid \in DOMAIN ss
    THEN [ss EXCEPT ![sid] =
            DictUpdate(NewSession(t), [created_at |-> @.created_at])]
    ELSE ss


clear_session(ss, sid, t) ==
    IF sid \in DOMAIN ss
    THEN [ss EXCEPT ![sid] =
            DictUpdate(@, [messages |-> <<>>, last_updated |-> isoformat(t)])]
    ELSE ss

delete_session(ss, sid) ==
    [s \in DOMAIN ss \ {sid} |-> ss[s]]
\* the comparison of line 72 were it to take the cutoff itself as expired
Precedes_OrEqual(last_updated, cutoff_time) == last_updated <= cutoff_time

\* the comparison of line 72
Precedes(last_updated, cutoff_time) == last_updated < cutoff_time

\* the body of the loop of cleanup_old_sessions: is the session collected
Expired(session_data, cutoff_time) ==
    LET last_updated_str == DictGet(session_data, "last_updated",
                                    [fmt |-> "none", t |-> 0])
    IN  IF Truthy(last_updated_str)
        THEN LET parsed == fromisoformat(last_updated_str)
             IN  IF parsed.ok THEN Precedes(parsed.t, cutoff_time)
                 ELSE TRUE     \* except (ValueError, TypeError)
        ELSE FALSE

sessions_to_delete(ss, hours, t) ==
    {sid \in DOMAIN ss : Expired(ss[sid], t - hours)}

cleanup_old_sessions(ss, hours, t) ==
    [s \in DOMAIN ss \ sessions_to_delete(ss, hours, t) |-> ss[s]]

save_user_preference(ss, sid, key, value, t) ==
    LET s1 == get_session(ss, sid, t)
        session == s1[sid]
        prefs == DictGet(session, "user_preferences", EmptyDict)
        changed == DictUpdate(session,
                      [user_preferences |-> DictUpdate(prefs, key :> value)])
    IN  update_session([s1 EXCEPT ![sid] = changed], sid, changed, t)

save_travel_context(ss, sid, context, t) ==
    LET s1 == get_session(ss, sid, t)
        session == s1[sid]
        ctx == DictGet(session, "travel_context", EmptyDict)
        changed == DictUpdate(session,
                      [travel_context |-> DictUpdate(ctx, context)])
    IN  update_session([s1 EXCEPT ![sid] = changed], sid, changed, t)

(***************************************************************************)
(* TravelPlanningAgent (travel_agent.py).                                  *)
(***************************************************************************)
Intents ==
    {"destination_inquiry", "itinerary_planning", "budget_planning",
     "accommodation", "transportation", "dining", "requirements",
     "general_travel", "greeting", "other"}

\* the list of line 124
FollowupIntents ==
    {"destination_inquiry", "itinerary_planning", "budget_planning"}

followup_questions ==
    [destination_inquiry |->
        <<"What's your budget range for this trip?",
          "How many days are you planning to travel?",
          "What type of activities interest you most?">>,
     itinerary_planning |->
        <<"What's your preferred pace (packed schedule vs. relaxed)?",
          "Are there any specific must-see attractions on your list?",
          "What's your accommodation preference (location, style)?">>,
     budget_planning |->
        <<"What's your total budget range?",
          "Which expenses are most important to you?",
          "Are you flexible with travel dates for better deals?">>]

system_prompts ==
    [destination_inquiry |-> "prompt: destination recommendations",
     itinerary_planning |-> "prompt: itinerary planner",
     budget_planning |-> "prompt: budget specialist",
     accommodation |-> "prompt: accommodation expert",
     transportation |-> "prompt: transportation expert",
     dining |-> "prompt: culinary expert",
     requirements |-> "prompt: requirements specialist",
     greeting |-> "prompt: friendly assistant",
     general_travel |-> "prompt: experienced advisor"]

ClassifierPrompt == "prompt: travel intent classifier"

PromptSuffix == "\n\nAlways be enthusiastic, helpful, and provide actionable advice."

FollowupHeader == "\n\n**To help you better, I'd love to know:**\n"

\* json.loads(content): the value of a well-formed text, else an exception
json_loads(content) ==
    IF content.syntax = "invalid"
    THEN [ok |-> FALSE, isdict |-> FALSE, value |-> EmptyDict]
    ELSE [ok |-> TRUE, isdict |-> content.syntax = "object",
          value |-> content.members]

\* the messages of the classifier's call were the history sent with them
classifier_messages_WithHistory(st) ==
    <<[role |-> "system", content |-> Str(<<ClassifierPrompt>>)]>>
    \o DictGet(st, "conversation_history", <<>>)
    \o <<[role |-> "user", content |-> DictGet(st, "current_message", Str(<<>>))]>>

\* the messages of the classifier's call (lines 32-50)
classifier_messages(st) ==
    <<[role |-> "system", content |-> Str(<<ClassifierPrompt>>)],
      [role |-> "user", content |-> DictGet(st, "current_message", Str(<<>>))]>>
\* lines 55-65 were the except branch to fall back to the intent other
analyze_travel_intent_OtherFallback(st, content) ==
    LET intent_data == json_loads(content)
    IN  IF intent_data.ok /\ intent_data.isdict
        THEN DictUpdate(st,
                [intent |-> DictGet(intent_data.value, "intent", "general_travel"),
                 entities |-> DictGet(intent_data.value, "key_entities", <<>>),
                 confidence |-> DictGet(intent_data.value, "confidence",
                                        Num(DefaultConfidence))])
        ELSE DictUpdate(st,
                [intent |-> "other", entities |-> <<>>,
                 confidence |-> Num(DefaultConfidence)])

\* lines 55-65: the state after the classifier's reply has been read
analyze_travel_intent(st, content) ==
    LET intent_data == json_loads(content)
    IN  IF intent_data.ok /\ intent_data.isdict
        THEN DictUpdate(st,
                [intent |-> DictGet(intent_data.value, "intent", "general_travel"),
                 entities |-> DictGet(intent_data.value, "key_entities", <<>>),
                 confidence |-> DictGet(intent_data.value, "confidence",
                                        Num(DefaultConfidence))])
        ELSE DictUpdate(st,
                [intent |-> "general_travel", entities |-> <<>>,
                 confidence |-> Num(DefaultConfidence)])

\* history[-n:]
LastN(history, n) ==
    IF Len(history) > n
    THEN SubSeq(history, Len(history) - n + 1, Len(history))
    ELSE history
\* the slice of line 102 were it history[:6]
history_window_Head(history) ==
    IF Len(history) > HistoryWindow
    THEN SubSeq(history, 1, HistoryWindow)
    ELSE history

\* the slice of line 102
history_window(history) == LastN(history, HistoryWindow)

\* lines 94-106: the messages of the generator's call
generator_messages(st) ==
    LET message == DictGet(st, "current_message", Str(<<>>))
        intent == DictGet(st, "intent", "general_travel")
        history == DictGet(st, "conversation_history", <<>>)
        system_prompt ==
            DictGet(system_prompts, intent, system_prompts.general_travel)
    IN  <<[role |-> "system", content |-> Str(<<system_prompt, PromptSuffix>>)]>>
        \o history_window(history)
        \o <<[role |-> "user", content |-> message]>>
\* the comparison of line 124 were it >=
AboveThreshold_OrEqual(confidence) == confidence >= ConfidenceThreshold

\* the comparison of line 124
AboveThreshold(confidence) == confidence > ConfidenceThreshold

\* lines 118-126; "TypeError" when the comparison of line 124 raises
should_ask_followup(st) ==
    LET intent == DictGet(st, "intent", "general_travel")
        confidence == DictGet(st, "confidence", Num(DefaultConfidence))
    IN  IF intent \in FollowupIntents
        THEN IF confidence.kind # "num" THEN "TypeError"
             ELSE IF AboveThreshold(confidence.val) THEN "followup"
             ELSE "respond"
        ELSE "respond"

RECURSIVE JoinLines(_)
\* "\n".join of the bulleted questions
JoinLines(qs) ==
    IF qs = <<>> THEN <<>>
    ELSE IF Len(qs) = 1 THEN <<"* ", qs[1]>>
    ELSE <<"* ", qs[1], "\n">> \o JoinLines(Tail(qs))

\* the slice of line 154 were it to take one question more
FirstN_OneMore(questions, n) ==
    IF Len(questions) > n + 1 THEN SubSeq(questions, 1, n + 1) ELSE questions

\* questions[:2]
FirstN(questions, n) ==
    IF Len(questions) > n THEN SubSeq(questions, 1, n) ELSE questions

\* lines 153-154
followup_text(intent) ==
    <<FollowupHeader>>
    \o JoinLines(FirstN(followup_questions[intent], FollowupLimit))

\* lines 128-157: [raised, state]; the concatenation of line 155 raises
\* TypeError when the response is not text
add_followup_questions(st) ==
    LET current_response == DictGet(st, "response", Str(<<>>))
        intent == DictGet(st, "intent", "general_travel")
    IN  IF intent \in DOMAIN followup_questions
        THEN IF current_response.kind = "str"
             THEN [raised |-> FALSE,
                   state |-> DictUpdate(st,
                      [response |->
                         Str(current_response.val \o followup_text(intent))])]
             ELSE [raised |-> TRUE, state |-> st]
        ELSE [raised |-> FALSE, state |-> st]

\* line 220
graph_error(description) ==
    [response |-> Str(<<"Graph execution error: ", description>>)]

\* line 211
process_error(description) ==
    Str(<<"I encountered an error while planning your trip: ", description,
          ". Please try rephrasing your question.">>)

\* the default of line 208
ProcessDefault ==
    Str(<<"I'm sorry, I couldn't process your travel request. Please try again!">>)

\* lines 192-196 raise KeyError on a user or assistant entry without content
HistoryRaises(conversation_history) ==
    \E i \in 1..Len(conversation_history) :
        /\ DictGet(conversation_history[i], "role", "") \in {"user", "assistant"}
        /\ "content" \notin DOMAIN conversation_history[i]

\* the test of lines 193 and 195 were it to keep the role system as well
KeptRole_WithSystem(msg) ==
    DictGet(msg, "role", "") \in {"user", "assistant", "system"}

\* the test of lines 193 and 195
KeptRole(msg) == DictGet(msg, "role", "") \in {"user", "assistant"}

RECURSIVE formatted_history(_)
\* lines 191-196
formatted_history(conversation_history) ==
    IF conversation_history = <<>> THEN <<>>
    ELSE LET msg == Head(conversation_history)
             rest == formatted_history(Tail(conversation_history))
         IN  IF KeptRole(msg)
             THEN <<[role |-> msg.role, content |-> msg.content]>> \o rest
             ELSE rest

\* lines 199-203
initial_state(message, session_id, conversation_history) ==
    [current_message |-> message, session_id |-> session_id,
     conversation_history |-> formatted_history(conversation_history)]

(***************************************************************************)
(* Inputs.                                                                 *)
(***************************************************************************)
Messages == {Str(<<"Plan a trip to Japan">>)}

GeneratedText == Str(<<"Here is some advice.">>)

\* what a completion call can do: raise, or return a message with a content
Raised == [raised |-> TRUE, content |-> None]

Returned(content) == [raised |-> FALSE, content |-> content]

JsonInvalid == [syntax |-> "invalid", members |-> EmptyDict]

JsonArray == [syntax |-> "array", members |-> EmptyDict]

JsonObject(members) == [syntax |-> "object", members |-> members]

GeneratorReplies == {Raised, Returned(GeneratedText), Returned(None)}

IntentValues ==
    {"destination_inquiry", "itinerary_planning", "budget_planning",
     "dining", "shopping"}

ConfidenceValues ==
    {Num(ConfidenceThreshold - 1), Num(ConfidenceThreshold),
     Num(ConfidenceThreshold + 1), Str(<<"high">>)}

EntityValues == {<<"Japan">>}

\* the JSON objects a classifier reply can hold: any of the three members
\* may be missing
ClassifierObjects ==
    [intent : IntentValues, confidence : ConfidenceValues,
     key_entities : EntityValues]
    \cup [intent : IntentValues, confidence : ConfidenceValues]
    \cup [intent : IntentValues, key_entities : EntityValues]
    \cup [confidence : ConfidenceValues, key_entities : EntityValues]
    \cup [intent : IntentValues]
    \cup [confidence : ConfidenceValues]
    \cup [key_entities : EntityValues]
    \cup {EmptyDict}

ClassifierReplies ==
    {Raised, Returned(JsonInvalid), Returned(JsonArray)}
    \cup {Returned(JsonObject(o)) : o \in ClassifierObjects}

\* the classifier replies of the runs that vary the store or the history
FewClassifierReplies ==
    {Returned(JsonObject([intent |-> "destination_inquiry",
                          confidence |-> Num(ConfidenceThreshold + 1),
                          key_entities |-> <<"Japan">>])),
     Returned(JsonObject([intent |-> "dining",
                          confidence |-> Num(ConfidenceThreshold + 1),
                          key_entities |-> <<>>]))}

(***************************************************************************)
(* The steps.                                                              *)
(***************************************************************************)
\* The local session of a /chat call is the dict get_session returned
\* (session_manager.py:26).  It is the stored dict for as long as the id's
\* record stays in the store (attached); after del self.sessions[...] the
\* local still refers to the dict, which the store no longer holds.
\* snapshot is the dict's content when get_session returned it and, once it
\* has left the store, its content at that moment.
NoSession == [attached |-> FALSE, snapshot |-> EmptyDict]

Attach(ss, sid) == [attached |-> TRUE, snapshot |-> ss[sid]]
\* the local were get_session to return a copy of the stored dict
Held_Copy(ss, sid, ref) == ref.snapshot

\* the dict a local refers to
Held(ss, sid, ref) == IF ref.attached THEN ss[sid] ELSE ref.snapshot

\* a local after a step that took the store from before to after
Detached(ref, sid, before, after) ==
    IF ref.attached /\ sid \notin DOMAIN after
    THEN [attached |-> FALSE, snapshot |-> before[sid]]
    ELSE ref

NoChat ==
    [pc |-> "idle", session_id |-> "", message |-> None,
     conversation_history |-> <<>>, session |-> NoSession, response |-> None]

NoReq ==
    [caller |-> "none", session_id |-> "", message |-> None,
     conversation_history |-> <<>>]

\* the transcript length of a session, 0 when the id is not stored
Size(ss, sid) ==
    IF sid \in DOMAIN ss THEN Len(DictGet(ss[sid], "messages", <<>>)) ELSE 0

\* what lastOp holds: the step, its session id, whether the id was stored and
\* how long its transcript was before the step, and what the step returned
Op(name, sid) ==
    [op |-> name, sid |-> sid, hours |-> 0, count |-> 0,
     found |-> sid \in DOMAIN sessions, size |-> Size(sessions, sid),
     status |-> 0]

Init ==
    /\ sessions = EmptyDict
    /\ now = 0
    /\ pc = "idle"
    /\ req = NoReq
    /\ state = EmptyDict
    /\ graphResult = EmptyDict
    /\ response = None
    /\ calls = <<>>
    /\ stages = <<>>
    /\ chatSession = NoSession
    /\ otherChat = NoChat
    /\ lastOp = Op("init", "")

\* the clock advances
Tick ==
    /\ now < MaxTime
    /\ now' = now + 1
    /\ lastOp' = Op("tick", "")
    /\ UNCHANGED <<sessions, pc, req, state, graphResult, response, calls,
                   stages, chatSession, otherChat>>

\* process_message, lines 186-203: up to the call of the graph
BeginProcess(caller, session_id, message, conversation_history) ==
    /\ req' = [caller |-> caller, session_id |-> session_id,
               message |-> message,
               conversation_history |-> conversation_history]
    /\ calls' = <<>>
    /\ stages' = <<>>
    /\ graphResult' = EmptyDict
    /\ IF HistoryRaises(conversation_history)
       THEN /\ pc' = "returned"
            /\ state' = EmptyDict
            /\ response' = process_error("KeyError: content")
       ELSE /\ pc' = "analyze_intent"
            /\ state' = initial_state(message, session_id, conversation_history)
            /\ response' = None

\* backend.chat, lines 29-38: get_session, then the call of process_message
ChatStart(sid, message) ==
    /\ pc = "idle"
    /\ LET ss == get_session(sessions, sid, now)
           history == DictGet(ss[sid], "messages", <<>>)
       IN  /\ Len(history) < 2 * MaxTurns
           /\ sessions' = ss
           /\ chatSession' = Attach(ss, sid)
           /\ BeginProcess("chat", sid, message, history)
    /\ lastOp' = Op("chat_start", sid)
    /\ UNCHANGED <<now, otherChat>>

\* the node analyze_intent, lines 25-65
AnalyzeIntent(reply) ==
    /\ pc = "analyze_intent"
    /\ stages' = Append(stages, "analyze_intent")
    /\ calls' = Append(calls, [node |-> "analyze_intent",
                               messages |-> classifier_messages(state),
                               reply |-> reply])
    /\ IF reply.raised
       THEN /\ graphResult' = graph_error("gateway failure")
            /\ pc' = "graph_end"
            /\ state' = state
       ELSE /\ state' = analyze_travel_intent(state, reply.content)
            /\ pc' = "generate_response"
            /\ graphResult' = graphResult
    /\ lastOp' = Op("analyze_intent", req.session_id)
    /\ UNCHANGED <<sessions, now, req, response, chatSession, otherChat>>

\* the node generate_response, lines 67-116, and its conditional edge,
\* lines 172-179
GenerateResponse(reply) ==
    /\ pc = "generate_response"
    /\ stages' = Append(stages, "generate_response")
    /\ calls' = Append(calls, [node |-> "generate_response",
                               messages |-> generator_messages(state),
                               reply |-> reply])
    /\ IF reply.raised
       THEN /\ graphResult' = graph_error("gateway failure")
            /\ pc' = "graph_end"
            /\ state' = state
       ELSE LET generated == DictUpdate(state, [response |-> reply.content])
                edge == should_ask_followup(generated)
            IN  /\ state' = generated
                /\ CASE edge = "followup" ->
                          /\ pc' = "add_followup"
                          /\ graphResult' = graphResult
                     [] edge = "respond" ->
                          /\ pc' = "graph_end"
                          /\ graphResult' = generated
                     [] OTHER ->
                          /\ pc' = "graph_end"
                          /\ graphResult' = graph_error("TypeError: compare")
    /\ lastOp' = Op("generate_response", req.session_id)
    /\ UNCHANGED <<sessions, now, req, response, chatSession, otherChat>>

\* the node add_followup were the graph to run it a second time
AddFollowup_Twice ==
    /\ pc = "add_followup"
    /\ stages' = stages \o <<"add_followup", "add_followup">>
    /\ LET done == add_followup_questions(state)
           again == add_followup_questions(done.state)
       IN  IF done.raised \/ again.raised
           THEN /\ graphResult' = graph_error("TypeError: concatenate")
                /\ state' = state
           ELSE /\ graphResult' = again.state
                /\ state' = again.state
    /\ pc' = "graph_end"
    /\ lastOp' = Op("add_followup", req.session_id)
    /\ UNCHANGED <<sessions, now, req, response, calls, chatSession, otherChat>>

\* the node add_followup, lines 128-157
AddFollowup ==
    /\ pc = "add_followup"
    /\ stages' = Append(stages, "add_followup")
    /\ LET done == add_followup_questions(state)
       IN  IF done.raised
           THEN /\ graphResult' = graph_error("TypeError: concatenate")
                /\ state' = state
           ELSE /\ graphResult' = done.state
                /\ state' = done.state
    /\ pc' = "graph_end"
    /\ lastOp' = Op("add_followup", req.session_id)
    /\ UNCHANGED <<sessions, now, req, response, calls, chatSession, otherChat>>

\* process_message, line 208
ProcessReturn ==
    /\ pc = "graph_end"
    /\ response' = DictGet(graphResult, "response", ProcessDefault)
    /\ pc' = "returned"
    /\ lastOp' = Op("process_message", req.session_id)
    /\ UNCHANGED <<sessions, now, req, state, graphResult, calls, stages,
                   chatSession, otherChat>>

\* ChatResponse(response=...) of lines 51-54: 200, or the 500 of line 57
\* when the response is not text
ChatStatus(text) == IF text.kind = "str" THEN 200 ELSE 500
\* lines 44-47 were the assistant entry to come first
NewEntries_Swapped(message, text) ==
    <<[role |-> "assistant", content |-> text],
      [role |-> "user", content |-> message]>>

\* lines 44-47: the two entries added to the transcript
NewEntries(message, text) ==
    <<[role |-> "user", content |-> message],
      [role |-> "assistant", content |-> text]>>

\* lines 40-49 were the oldest entry to leave the transcript when the two
\* new ones are added
Committed_DropFirst(ss, sid, ref, message, text, t) ==
    LET session == Held(ss, sid, ref)
        messages == DictGet(session, "messages", <<>>)
        extended ==
            DictUpdate(session,
                [messages |-> (IF messages = <<>> THEN <<>> ELSE Tail(messages))
                              \o NewEntries(message, text)])
        stored == IF ref.attached THEN [ss EXCEPT ![sid] = extended] ELSE ss
    IN  update_session(stored, sid, extended, t)

\* backend.chat, lines 40-49: extend changes the dict the local refers to,
\* which is the stored one unless the record has left the store, and
\* update_session is called with that dict
Committed(ss, sid, ref, message, text, t) ==
    LET session == Held(ss, sid, ref)
        extended ==
            DictUpdate(session,
                [messages |-> DictGet(session, "messages", <<>>)
                              \o NewEntries(message, text)])
        stored == IF ref.attached THEN [ss EXCEPT ![sid] = extended] ELSE ss
    IN  update_session(stored, sid, extended, t)

\* backend.chat, lines 40-57
ChatCommit ==
    /\ pc = "returned"
    /\ req.caller = "chat"
    /\ LET sid == req.session_id
       IN  /\ sessions' = Committed(sessions, sid, chatSession, req.message,
                                    response, now)
           /\ lastOp' = [Op("chat", sid) EXCEPT !.status = ChatStatus(response)]
    /\ chatSession' = NoSession
    /\ pc' = "idle"
    /\ req' = NoReq
    /\ state' = EmptyDict
    /\ graphResult' = EmptyDict
    /\ calls' = <<>>
    /\ stages' = <<>>
    /\ response' = None
    /\ UNCHANGED <<now, otherChat>>

\* a second /chat call, lines 29-38: get_session, then process_message,
\* which touches no session
OtherChatStart(sid, message) ==
    /\ otherChat.pc # "waiting"
    /\ LET ss == get_session(sessions, sid, now)
           history == DictGet(ss[sid], "messages", <<>>)
       IN  /\ Len(history) < 2 * MaxTurns
           /\ sessions' = ss
           /\ otherChat' = [pc |-> "waiting", session_id |-> sid,
                            message |-> message,
                            conversation_history |-> history,
                            session |-> Attach(ss, sid), response |-> None]
    /\ lastOp' = Op("other_chat_start", sid)
    /\ UNCHANGED <<now, pc, req, state, graphResult, response, calls, stages,
                   chatSession>>

\* the second /chat call, lines 40-57, process_message having returned text
OtherChatCommit(text) ==
    /\ otherChat.pc = "waiting"
    /\ sessions' = Committed(sessions, otherChat.session_id, otherChat.session,
                             otherChat.message, text, now)
    /\ otherChat' = [otherChat EXCEPT !.pc = "done", !.session = NoSession,
                                      !.response = text]
    /\ lastOp' = [Op("other_chat", otherChat.session_id) EXCEPT
                     !.status = ChatStatus(text)]
    /\ UNCHANGED <<now, pc, req, state, graphResult, response, calls, stages,
                   chatSession>>

\* a direct call of process_message with any history
ProcessCall(message, session_id, conversation_history) ==
    /\ pc = "idle"
    /\ BeginProcess("direct", session_id, message, conversation_history)
    /\ lastOp' = Op("process_start", session_id)
    /\ UNCHANGED <<sessions, now, chatSession, otherChat>>

\* SessionManager.get_session
GetSession(sid) ==
    /\ pc = "idle"
    /\ sessions' = get_session(sessions, sid, now)
    /\ lastOp' = Op("get_session", sid)
    /\ UNCHANGED <<now, pc, req, state, graphResult, response, calls, stages,
                   chatSession, otherChat>>

\* backend.clear_conversation, lines 59-66
ClearConversation(sid) ==
    /\ pc = "idle"
    /\ sessions' = clear_session(sessions, sid, now)
    /\ lastOp' = [Op("clear", sid) EXCEPT !.status = 200]
    /\ UNCHANGED <<now, pc, req, state, graphResult, response, calls, stages,
                   chatSession, otherChat>>

\* backend.get_session_info, lines 73-85: the record get_session returns is
\* read and 200 is answered; get_session raises nothing, so the 404 of line
\* 85 is never answered
GetSessionInfo(sid) ==
    /\ pc = "idle"
    /\ sessions' = get_session(sessions, sid, now)
    /\ lastOp' = [Op("get_session_info", sid) EXCEPT
                     !.status = 200,
                     !.count = Len(DictGet(sessions'[sid], "messages", <<>>))]
    /\ UNCHANGED <<now, pc, req, state, graphResult, response, calls, stages,
                   chatSession, otherChat>>

\* SessionManager.update_session called with a dict of the caller's
UpdateSession(sid, session_data) ==
    /\ pc = "idle"
    /\ sessions' = update_session(sessions, sid, session_data, now)
    /\ lastOp' = Op("update", sid)
    /\ UNCHANGED <<now, pc, req, state, graphResult, response, calls, stages,
                   chatSession, otherChat>>

\* SessionManager.delete_session, at any time: a local of a /chat call in
\* progress goes on referring to the dict that left the store
DeleteSession(sid) ==
    /\ sessions' = delete_session(sessions, sid)
    /\ lastOp' = Op("delete", sid)
    /\ chatSession' = Detached(chatSession, req.session_id, sessions, sessions')
    /\ otherChat' = [otherChat EXCEPT
                        !.session = Detached(@, otherChat.session_id,
                                             sessions, sessions')]
    /\ UNCHANGED <<now, pc, req, state, graphResult, response, calls, stages>>

\* SessionManager.cleanup_old_sessions, at any time
CleanupOldSessions(hours) ==
    /\ sessions' = cleanup_old_sessions(sessions, hours, now)
    /\ lastOp' = [Op("cleanup", "") EXCEPT
                     !.hours = hours,
                     !.count = Cardinality(sessions_to_delete(sessions, hours, now))]
    /\ chatSession' = Detached(chatSession, req.session_id, sessions, sessions')
    /\ otherChat' = [otherChat EXCEPT
                        !.session = Detached(@, otherChat.session_id,
                                             sessions, sessions')]
    /\ UNCHANGED <<now, pc, req, state, graphResult, response, calls, stages>>

\* SessionManager.save_user_preference
SaveUserPreference(sid, key, value) ==
    /\ pc = "idle"
    /\ sessions' = save_user_preference(sessions, sid, key, value, now)
    /\ lastOp' = Op("save_user_preference", sid)
    /\ UNCHANGED <<now, pc, req, state, graphResult, response, calls, stages,
                   chatSession, otherChat>>

\* SessionManager.save_travel_context
SaveTravelContext(sid, context) ==
    /\ pc = "idle"
    /\ sessions' = save_travel_context(sessions, sid, context, now)
    /\ lastOp' = Op("save_travel_context", sid)
    /\ UNCHANGED <<now, pc, req, state, graphResult, response, calls, stages,
                   chatSession, otherChat>>

(***************************************************************************)
(* Histories a direct caller of process_message can pass: entries of any   *)
(* role, with more keys than role and content, or without a content.       *)
(***************************************************************************)
UserEntry == [role |-> "user", content |-> Str(<<"earlier question">>)]

AssistantEntry == [role |-> "assistant", content |-> Str(<<"earlier answer">>)]

SystemEntry == [role |-> "system", content |-> Str(<<"note">>)]

StampedEntry ==
    [role |-> "user", content |-> Str(<<"stamped question">>),
     timestamp |-> "2025-01-01T00:00:00"]

NoContentEntry == [role |-> "assistant"]

SeqsUpTo(S, n) == UNION {[1..k -> S] : k \in 0..n}

Histories == SeqsUpTo({UserEntry, AssistantEntry, SystemEntry}, MaxHist)

SmallHistories ==
    SeqsUpTo({UserEntry, AssistantEntry, SystemEntry, StampedEntry,
              NoContentEntry}, MaxSmallHist)

\* the replies of the runs in which every completion call succeeds
PlainClassifierReplies ==
    {Returned(JsonObject([intent |-> "destination_inquiry",
                          confidence |-> Num(ConfidenceThreshold + 1),
                          key_entities |-> <<"Japan">>]))}

PlainGeneratorReplies == {Returned(GeneratedText)}

(***************************************************************************)
(* Spec: the session store under the handlers and the store's operations,  *)
(* one at a time, two session ids, a clock, completion calls that succeed. *)
(***************************************************************************)
Next ==
    \/ Tick
    \/ \E sid \in SessionIds, message \in Messages : ChatStart(sid, message)
    \/ \E reply \in PlainClassifierReplies : AnalyzeIntent(reply)
    \/ \E reply \in PlainGeneratorReplies : GenerateResponse(reply)
    \/ AddFollowup
    \/ ProcessReturn
    \/ ChatCommit
    \/ \E sid \in SessionIds : GetSession(sid)
    \/ \E sid \in SessionIds : ClearConversation(sid)
    \/ pc = "idle" /\ \E sid \in SessionIds : DeleteSession(sid)
    \/ pc = "idle" /\ \E hours \in 0..MaxHours : CleanupOldSessions(hours)
    \/ \E sid \in SessionIds, key \in PrefKeys, value \in PrefValues :
          SaveUserPreference(sid, key, value)
    \/ \E sid \in SessionIds, context \in Contexts : SaveTravelContext(sid, context)

Spec == Init /\ [][Next]_vars

(***************************************************************************)
(* SpecChat: /chat calls over two session ids whose completion calls       *)
(* succeed, return no text or fail.                                        *)
(***************************************************************************)
NextChat ==
    \/ \E sid \in SessionIds, message \in Messages : ChatStart(sid, message)
    \/ \E reply \in FewClassifierReplies \cup {Raised} : AnalyzeIntent(reply)
    \/ \E reply \in GeneratorReplies : GenerateResponse(reply)
    \/ AddFollowup
    \/ ProcessReturn
    \/ ChatCommit

SpecChat == Init /\ [][NextChat]_vars

(***************************************************************************)
(* SpecGraph: calls of process_message under every classifier reply and    *)
(* every generator reply, over short histories.                            *)
(***************************************************************************)
NextGraph ==
    \/ /\ pc = "idle"
       /\ \E message \in Messages, sid \in SessionIds, history \in SmallHistories :
             ProcessCall(message, sid, history)
    \/ \E reply \in ClassifierReplies : AnalyzeIntent(reply)
    \/ \E reply \in GeneratorReplies : GenerateResponse(reply)
    \/ AddFollowup
    \/ ProcessReturn

SpecGraph == Init /\ [][NextGraph]_vars

\* graph.invoke runs the nodes one after the other without waiting for
\* anything but the completion calls, which return or raise: a call of
\* process_message that can take a step takes it
SpecGraphFair == SpecGraph /\ WF_vars(NextGraph)

(***************************************************************************)
(* SpecHist: calls of process_message over long histories.                 *)
(***************************************************************************)
NextHist ==
    \/ /\ pc = "idle"
       /\ \E message \in Messages, sid \in SessionIds, history \in Histories :
             ProcessCall(message, sid, history)
    \/ \E reply \in FewClassifierReplies : AnalyzeIntent(reply)
    \/ \E reply \in PlainGeneratorReplies : GenerateResponse(reply)
    \/ AddFollowup
    \/ ProcessReturn

SpecHist == Init /\ [][NextHist]_vars

(***************************************************************************)
(* SpecBackend: the handlers of backend.py and the store's accessors, one  *)
(* at a time, at one reading of the clock.                                 *)
(***************************************************************************)
NextBackend ==
    \/ \E sid \in SessionIds, message \in Messages : ChatStart(sid, message)
    \/ \E reply \in FewClassifierReplies : AnalyzeIntent(reply)
    \/ \E reply \in PlainGeneratorReplies : GenerateResponse(reply)
    \/ AddFollowup
    \/ ProcessReturn
    \/ ChatCommit
    \/ \E sid \in SessionIds : ClearConversation(sid)
    \/ \E sid \in SessionIds : GetSessionInfo(sid)
    \/ \E sid \in SessionIds : GetSession(sid)
    \/ \E sid \in SessionIds, key \in PrefKeys, value \in PrefValues :
          SaveUserPreference(sid, key, value)
    \/ \E sid \in SessionIds, context \in Contexts : SaveTravelContext(sid, context)

SpecBackend == Init /\ [][NextBackend]_vars

(***************************************************************************)
(* SpecRace: two /chat calls whose store operations interleave in every    *)
(* order.  The event loop runs one handler at a time; the interleavings    *)
(* are those the store would meet were the graph awaited.                  *)
(***************************************************************************)
OtherMessages == {Str(<<"And the budget?">>)}

OtherTexts == {Str(<<"Here is a budget.">>)}

NextRace ==
    \/ \E sid \in SessionIds, message \in Messages : ChatStart(sid, message)
    \/ \E reply \in PlainClassifierReplies : AnalyzeIntent(reply)
    \/ \E reply \in PlainGeneratorReplies : GenerateResponse(reply)
    \/ AddFollowup
    \/ ProcessReturn
    \/ ChatCommit
    \/ \E sid \in SessionIds, message \in OtherMessages :
          OtherChatStart(sid, message)
    \/ \E text \in OtherTexts : OtherChatCommit(text)

SpecRace == Init /\ [][NextRace]_vars

(***************************************************************************)
(* SpecRemove: /chat calls with delete_session and cleanup_old_sessions    *)
(* running at any time, a /chat call in progress or not.                   *)
(***************************************************************************)
NextRemove ==
    \/ Tick
    \/ \E sid \in SessionIds, message \in Messages : ChatStart(sid, message)
    \/ \E reply \in PlainClassifierReplies : AnalyzeIntent(reply)
    \/ \E reply \in PlainGeneratorReplies : GenerateResponse(reply)
    \/ AddFollowup
    \/ ProcessReturn
    \/ ChatCommit
    \/ \E sid \in SessionIds : GetSession(sid)
    \/ \E sid \in SessionIds : DeleteSession(sid)
    \/ \E hours \in 0..MaxHours : CleanupOldSessions(hours)

SpecRemove == Init /\ [][NextRemove]_vars

(***************************************************************************)
(* SpecStore: the operations of SessionManager that write a record, with   *)
(* update_session called on dicts of the caller's: one key only, or the    *)
(* five keys as a record created at hour 0 holds them.                     *)
(***************************************************************************)
SessionData ==
    {[travel_context |-> [destination |-> "Japan"]], NewSession(0)}

NextStore ==
    \/ Tick
    \/ \E sid \in SessionIds : GetSession(sid)
    \/ \E sid \in SessionIds, session_data \in SessionData :
          UpdateSession(sid, session_data)
    \/ \E sid \in SessionIds : ClearConversation(sid)
    \/ \E sid \in SessionIds, key \in PrefKeys, value \in PrefValues :
          SaveUserPreference(sid, key, value)
    \/ \E sid \in SessionIds, context \in Contexts : SaveTravelContext(sid, context)

SpecStore == Init /\ [][NextStore]_vars

(***************************************************************************)
(* SpecEvict: cleanup_old_sessions over stores whose records hold any      *)
(* last_updated.  sessions is a public attribute and get_session hands out *)
(* the stored dict itself, so a record's last_updated is whatever its      *)
(* holder left there: a text isoformat wrote, None, the empty text, a text *)
(* fromisoformat rejects, or no key at all.                                *)
(***************************************************************************)
NoTimestamp == [fmt |-> "none", t |-> 0]

EmptyTimestamp == [fmt |-> "empty", t |-> 0]

GarbageTimestamp == [fmt |-> "garbage", t |-> 0]

\* a record created at time 0 without the key last_updated
UnstampedRecord ==
    [created_at |-> isoformat(0), messages |-> <<>>,
     user_preferences |-> EmptyDict, travel_context |-> EmptyDict]

AnyRecords ==
    {UnstampedRecord}
    \cup {DictUpdate(NewSession(0), [last_updated |-> s]) :
             s \in {isoformat(0), NoTimestamp, EmptyTimestamp, GarbageTimestamp}}

AnyStores == UNION {[ids -> AnyRecords] : ids \in SUBSET SessionIds}

InitEvict ==
    /\ sessions \in AnyStores
    /\ now \in 0..MaxTime
    /\ pc = "idle"
    /\ req = NoReq
    /\ state = EmptyDict
    /\ graphResult = EmptyDict
    /\ response = None
    /\ calls = <<>>
    /\ stages = <<>>
    /\ chatSession = NoSession
    /\ otherChat = NoChat
    /\ lastOp = Op("init", "")

NextEvict ==
    \/ Tick
    \/ \E hours \in 0..MaxHours : CleanupOldSessions(hours)

SpecEvict == InitEvict /\ [][NextEvict]_vars

(***************************************************************************)
(* What the claims speak of.                                               *)
(***************************************************************************)
\* the classifier's call was made and returned a content
ClassifierReturned == Len(calls) >= 1 /\ ~calls[1].reply.raised

\* the generator's call was made and returned a text
GeneratorReturnedText ==
    /\ Len(calls) = 2
    /\ ~calls[2].reply.raised
    /\ calls[2].reply.content.kind = "str"

\* the text the generator returned
GeneratorText == calls[2].reply.content

\* text followed by the follow-up block of an intent
Augmented(text, intent) == Str(text.val \o followup_text(intent))

C2_MalformedFallsBack ==
    (ClassifierReturned /\ calls[1].reply.content.syntax = "invalid") =>
        /\ state.intent = "general_travel"
        /\ state.confidence.kind = "num" /\ state.confidence.val = 5
        /\ state.entities = <<>>
        /\ Len(calls) = 1 => pc = "generate_response"
        /\ (pc = "returned" /\ GeneratorReturnedText) => response = GeneratorText

\* C2 witness: a call whose classifier reply was not JSON returned the
\* generator's text.
C2_Witness ==
    /\ pc = "returned"
    /\ ClassifierReturned
    /\ calls[1].reply.content.syntax = "invalid"
    /\ GeneratorReturnedText
    /\ response = GeneratorText

\* C3: after the classifier's node, the intent held in the state is one of
\* the ten intents, and a reply whose intent is none of them leaves
\* general_travel, confidence 0.5 and no entities.
C3_IntentInEnumeration ==
    ClassifierReturned =>
        /\ state.intent \in Intents
        /\ (/\ calls[1].reply.content.syntax = "object"
            /\ "intent" \in DOMAIN calls[1].reply.content.members
            /\ calls[1].reply.content.members.intent \notin Intents)
           => /\ state.intent = "general_travel"
              /\ state.confidence = Num(5)
              /\ state.entities = <<>>

\* a completion call raised, or the history held an entry without content
SomethingFailed ==
    \/ HistoryRaises(req.conversation_history)
    \/ \E i \in 1..Len(calls) : calls[i].reply.raised
    \/ \E i \in 1..Len(calls) :
          calls[i].node = "generate_response" /\ calls[i].reply.content = None

\* C4: process_message returns a text, whatever failed, and after a failure
\* the text names the error.
C4_AlwaysReturnsText ==
    pc = "returned" =>
        /\ response.kind = "str"
        /\ SomethingFailed =>
              \E j \in 1..Len(response.val) :
                  response.val[j] \in {"Graph execution error: ",
                      "I encountered an error while planning your trip: "}

\* C5: a call whose classifier node ran has run the generator node by the
\* time the graph ends, whatever the classifier's call did.
C5_ClassifierNeverAborts ==
    (pc \in {"graph_end", "returned"} /\ Len(stages) >= 1) =>
        (Len(stages) >= 2 /\ stages[2] = "generate_response")

\* C6: the messages of the generator's call are one system message, the
\* last min(n, 6) entries of the history held in the state, in their order,
\* and the current user message: min(n, 6) + 2 messages, never more than 8.
C6_HistoryWindow ==
    (Len(calls) = 2) =>
        LET history == state.conversation_history
            n == Len(history)
            k == IF n < 6 THEN n ELSE 6
            messages == calls[2].messages
        IN  /\ Len(messages) = k + 2
            /\ Len(messages) <= 8
            /\ messages[1].role = "system"
            /\ \A i \in 1..k : messages[1 + i] = history[n - k + i]
            /\ messages[k + 2] = [role |-> "user", content |-> req.message]

\* C6 witness: a history of more than six entries was cut to its last six.
C6_Witness ==
    /\ Len(calls) = 2
    /\ Len(state.conversation_history) > 6
    /\ Len(calls[2].messages) = 8
    /\ calls[2].messages[2] # state.conversation_history[1]

\* C7: a /chat call that answers 200 leaves the session stored with the
\* transcript it had when the call began (none for an id not stored then),
\* followed by the user message and by an assistant message holding the
\* returned response.
C7_ChatAppendsTwo ==
    [][/\ lastOp'.op = "chat_start" =>
            /\ lastOp'.sid \in DOMAIN sessions'
            /\ req'.conversation_history =
                  IF lastOp'.sid \in DOMAIN sessions
                  THEN sessions[lastOp'.sid].messages ELSE <<>>
            /\ sessions'[lastOp'.sid].messages = req'.conversation_history
       /\ (pc # "idle" /\ lastOp'.op # "chat") =>
            /\ req' = req
            /\ sessions'[req.session_id].messages = req.conversation_history
       /\ (lastOp'.op = "chat" /\ lastOp'.status = 200) =>
            /\ lastOp'.sid \in DOMAIN sessions'
            /\ sessions'[lastOp'.sid].messages =
                  req.conversation_history
                  \o <<[role |-> "user", content |-> req.message],
                       [role |-> "assistant", content |-> response]>>
      ]_vars

\* C7 witness: a /chat call answered 200 for a session that held a
\* transcript, which now holds two more entries.
C7_Witness ==
    /\ lastOp.op = "chat"
    /\ lastOp.status = 200
    /\ lastOp.size = 2
    /\ Len(sessions[lastOp.sid].messages) = 4

\* C8: get_session on an id not stored creates a record with no messages,
\* no preferences and no context; on a stored id it changes nothing but
\* last_updated, which does not decrease: created_at stays.
C8_GetOrCreate ==
    [][lastOp'.op = "get_session" =>
         LET sid == lastOp'.sid
         IN  /\ sid \in DOMAIN sessions'
             /\ \A other \in DOMAIN sessions \ {sid} :
                   other \in DOMAIN sessions' /\ sessions'[other] = sessions[other]
             /\ IF sid \notin DOMAIN sessions
                THEN /\ sessions'[sid].messages = <<>>
                     /\ sessions'[sid].user_preferences = EmptyDict
                     /\ sessions'[sid].travel_context = EmptyDict
                     /\ sessions'[sid].last_updated.t >= sessions'[sid].created_at.t
                ELSE /\ sessions'[sid].created_at = sessions[sid].created_at
                     /\ sessions'[sid].last_updated.t >= sessions[sid].last_updated.t
                     /\ sessions'[sid].messages = sessions[sid].messages
                     /\ sessions'[sid].user_preferences = sessions[sid].user_preferences
                     /\ sessions'[sid].travel_context = sessions[sid].travel_context
      ]_vars

\* C8 witness: get_session on a stored id left a record whose last_updated
\* is later than its created_at.
C8_Witness ==
    /\ lastOp.op = "get_session"
    /\ lastOp.found
    /\ sessions[lastOp.sid].last_updated.t > sessions[lastOp.sid].created_at.t

\* C9: /clear on a stored id empties the messages and sets last_updated to
\* the clock, and leaves the preferences, the context and created_at; on an
\* id not stored it changes nothing and stores no record.
C9_ClearFrame ==
    [][lastOp'.op = "clear" =>
         LET sid == lastOp'.sid
         IN  /\ DOMAIN sessions' = DOMAIN sessions
             /\ \A other \in DOMAIN sessions \ {sid} :
                   sessions'[other] = sessions[other]
             /\ sid \in DOMAIN sessions =>
                   /\ sessions'[sid].messages = <<>>
                   /\ sessions'[sid].last_updated = isoformat(now)
                   /\ sessions'[sid].user_preferences = sessions[sid].user_preferences
                   /\ sessions'[sid].travel_context = sessions[sid].travel_context
                   /\ sessions'[sid].created_at = sessions[sid].created_at
      ]_vars

\* C9 witness: /clear emptied a transcript of a session that holds a
\* preference and a context.
C9_Witness ==
    /\ lastOp.op = "clear"
    /\ lastOp.found
    /\ lastOp.size > 0
    /\ sessions[lastOp.sid].messages = <<>>
    /\ sessions[lastOp.sid].user_preferences # EmptyDict
    /\ sessions[lastOp.sid].travel_context # EmptyDict
    /\ sessions[lastOp.sid].last_updated.t > sessions[lastOp.sid].created_at.t

\* C10: cleanup_old_sessions(hours) removes, among the records whose
\* last_updated is a well-formed time, those older than the clock minus
\* hours and no other, leaves the records it keeps as they were, and returns
\* the number of records removed.
C10_EvictStrictlyOlder ==
    [][lastOp'.op = "cleanup" =>
         /\ DOMAIN sessions' \subseteq DOMAIN sessions
         /\ \A sid \in DOMAIN sessions :
               sessions[sid].last_updated.fmt = "iso" =>
                  (sid \notin DOMAIN sessions'
                     <=> sessions[sid].last_updated.t < now - lastOp'.hours)
         /\ \A sid \in DOMAIN sessions' : sessions'[sid] = sessions[sid]
         /\ lastOp'.count = Cardinality(DOMAIN sessions \ DOMAIN sessions')
      ]_vars

\* C10 witness: cleanup_old_sessions removed one record and kept one whose
\* last_updated is the cutoff itself.
C10_Witness ==
    /\ lastOp.op = "cleanup"
    /\ lastOp.count = 1
    /\ \E sid \in DOMAIN sessions :
          sessions[sid].last_updated.t = now - lastOp.hours

\* the last_updated of a stored record, None without the key
StampOf(session_data) == DictGet(session_data, "last_updated", NoTimestamp)

\* C11: after cleanup_old_sessions has returned, every record left in the
\* store holds a last_updated that is a well-formed time: none whose
\* last_updated is absent, None, empty or unparseable is left, and the count
\* returned is the number of records removed.
C11_NoCorruptSurvives ==
    lastOp.op = "cleanup" =>
        \A sid \in DOMAIN sessions : StampOf(sessions[sid]).fmt = "iso"

\* C12: /sessions/{id} leaves the store as it was, and for an id that is
\* not stored it answers 404 instead of a session.
C12_InfoReadOnly ==
    [][lastOp'.op = "get_session_info" =>
         /\ sessions' = sessions
         /\ ~lastOp'.found => lastOp'.status = 404
      ]_vars

\* a is the beginning of b
IsPrefix(a, b) == Len(a) <= Len(b) /\ SubSeq(b, 1, Len(a)) = a

\* C13: of two /chat calls whose store operations interleave, no step
\* drops an entry of a stored transcript, and each call's commit adds its
\* user message and its assistant message, adjacent and in that order, to
\* the transcript as stored at that moment: once both have committed the
\* transcript holds both pairs.
C13_NoLostUpdate ==
    [][/\ \A sid \in DOMAIN sessions :
             /\ sid \in DOMAIN sessions'
             /\ IsPrefix(sessions[sid].messages, sessions'[sid].messages)
       /\ lastOp'.op = "chat" =>
             /\ lastOp'.found
             /\ sessions'[lastOp'.sid].messages =
                   sessions[lastOp'.sid].messages
                   \o <<[role |-> "user", content |-> req.message],
                        [role |-> "assistant", content |-> response]>>
       /\ lastOp'.op = "other_chat" =>
             /\ lastOp'.found
             /\ sessions'[lastOp'.sid].messages =
                   sessions[lastOp'.sid].messages
                   \o <<[role |-> "user", content |-> otherChat.message],
                        [role |-> "assistant", content |-> otherChat'.response]>>
      ]_vars

\* C13 witness: the second call began on an empty transcript and committed
\* after the first call had committed in between: the transcript holds the
\* first call's pair, then the second call's.
C13_Witness ==
    /\ lastOp.op = "other_chat"
    /\ otherChat.conversation_history = <<>>
    /\ lastOp.size = 2
    /\ Len(sessions[lastOp.sid].messages) = 4
    /\ sessions[lastOp.sid].messages[1].content \in Messages
    /\ sessions[lastOp.sid].messages[3].content = otherChat.message
    /\ sessions[lastOp.sid].messages[4].content = otherChat.response

\* C14: while a /chat call waits on its classifier's or its generator's
\* completion call, a /chat call for another session can start.
C14_GatewayDoesNotBlock ==
    (req.caller = "chat" /\ pc \in {"analyze_intent", "generate_response"}) =>
        \A sid \in SessionIds \ {req.session_id} :
            Size(sessions, sid) < 2 * MaxTurns =>
                ENABLED (\E message \in Messages : ChatStart(sid, message))

\* the classifier's reply was a JSON object
ClassifierObject ==
    ClassifierReturned /\ calls[1].reply.content.syntax = "object"

\* C15: when the classifier's reply is a JSON object without one
\* of intent, confidence, key_entities, the state holds the whole default:
\* general_travel, 0.5 and no entities.
C15_MissingFieldWholeDefault ==
    (/\ ClassifierObject
     /\ DOMAIN calls[1].reply.content.members
           # {"intent", "confidence", "key_entities"})
    => /\ state.intent = "general_travel"
       /\ state.confidence = Num(5)
       /\ state.entities = <<>>

\* C16: a /chat call that answers 500 leaves the session's transcript as
\* it was when the call began: neither its user entry nor its assistant
\* entry is stored.
C16_FailedChatLeavesTranscript ==
    [][(lastOp'.op = "chat" /\ lastOp'.status = 500) =>
          /\ lastOp'.sid \in DOMAIN sessions'
          /\ sessions'[lastOp'.sid].messages = req.conversation_history
      ]_vars

\* C17: delete_session leaves no record under the id, and what a removed
\* record held does not come back: when a /chat call commits after its
\* session's record was removed, the record stored under the id afterwards
\* holds what the store held under the id just before (nothing, or a record
\* created since) and the call's two entries, not the removed transcript.
C17_RemovedStaysGone ==
    [][/\ lastOp'.op = "delete" => lastOp'.sid \notin DOMAIN sessions'
       /\ (lastOp'.op = "chat" /\ ~chatSession.attached) =>
             /\ lastOp'.sid \in DOMAIN sessions'
             /\ sessions'[lastOp'.sid].messages =
                   (IF lastOp'.found
                    THEN sessions[lastOp'.sid].messages ELSE <<>>)
                   \o <<[role |-> "user", content |-> req.message],
                        [role |-> "assistant", content |-> response]>>
      ]_vars

\* C18: in every step, a stored session's messages either keep their
\* previous content as a prefix or become empty: no entry is edited,
\* reordered or removed by itself.
C18_AppendOrClear ==
    [][\A sid \in DOMAIN sessions \cap DOMAIN sessions' :
          \/ sessions'[sid].messages = <<>>
          \/ IsPrefix(sessions[sid].messages, sessions'[sid].messages)
      ]_vars

\* C18 witness: /clear emptied a transcript that two /chat calls had
\* extended.
C18_Witness ==
    /\ lastOp.op = "clear"
    /\ lastOp.size = 4
    /\ sessions[lastOp.sid].messages = <<>>

\* C19: every stored record has last_updated at or after created_at, and
\* no step takes the last_updated of a record that stays stored backwards.
C19_StampsOrdered ==
    [][\A sid \in DOMAIN sessions' :
          /\ sessions'[sid].last_updated.t >= sessions'[sid].created_at.t
          /\ sid \in DOMAIN sessions =>
                sessions'[sid].last_updated.t >= sessions[sid].last_updated.t
      ]_vars

\* C19 witness: update_session on a stored id, given a dict that holds the
\* timestamps of hour 0, left last_updated at the clock, later than hour 0.
C19_Witness ==
    /\ lastOp.op = "update"
    /\ lastOp.found
    /\ now > 0
    /\ sessions[lastOp.sid].created_at = isoformat(0)
    /\ sessions[lastOp.sid].last_updated = isoformat(now)
    /\ \E other \in DOMAIN sessions : sessions[other].created_at.t > 0

\* the nodes of the graph in the order of its edges
StageOrder == <<"analyze_intent", "generate_response", "add_followup">>

\* the graph reached __end__: what it returned is the state the nodes left
EndedInDone == graphResult = state

\* no completion call raised, the generator returned a text and the
\* confidence is a number
NothingRaised ==
    /\ \A i \in 1..Len(calls) : ~calls[i].reply.raised
    /\ GeneratorReturnedText
    /\ state.confidence.kind = "num"

\* C20 as stated: every call of process_message ends with the graph at
\* __end__ and returns the response held in the state.
C20_EveryTransactionDone ==
    pc = "returned" =>
        /\ stages # <<>>
        /\ EndedInDone
        /\ response = DictGet(state, "response", None)

\* C20 amended: every call of process_message whose graph started returns.
\* The nodes run are a beginning of analyze_intent, generate_response,
\* add_followup, so none runs twice and add_followup runs at most once;
\* once the graph has ended no node runs and the state stays.  When nothing
\* raised the graph ends at __end__, and a call whose graph ended at __end__
\* returns the response held in the state; a call in which a node raised
\* ends after that node and returns the text of the graph's error.
C20_TerminatesInOrder ==
    /\ [](IsPrefix(stages, StageOrder))
    /\ [][(pc = "graph_end" \/ pc = "returned") =>
             (stages' = stages /\ state' = state)]_vars
    /\ []((pc = "returned" /\ stages # <<>>) =>
             /\ NothingRaised => EndedInDone
             /\ IF EndedInDone
                THEN response = state.response
                ELSE /\ response.kind = "str"
                     /\ Head(response.val) = "Graph execution error: ")
    /\ (pc \in {"analyze_intent", "generate_response", "add_followup"}
          ~> pc = "returned")

\* C20 witness: a call ran the three nodes, ended at __end__ and returned
\* the response held in the state.
C20_Witness ==
    /\ pc = "returned"
    /\ stages = StageOrder
    /\ EndedInDone
    /\ NothingRaised
    /\ response = state.response

\* the node add_followup ran after a generator that returned a text
AugmenterRan ==
    /\ pc = "returned"
    /\ stages = StageOrder
    /\ GeneratorReturnedText

\* C21: when add_followup has run on a generator's text, the response is
\* that text, then the header, then the first and the second question of
\* the intent's bank, each on a bulleted line of its own, in that order:
\* the generator's text is a prefix of the response and the bank's third
\* question is nowhere in it.
C21_TwoQuestionsAppended ==
    AugmenterRan =>
        LET bank == followup_questions[state.intent]
        IN  /\ response.kind = "str"
            /\ response.val =
                  GeneratorText.val
                  \o <<FollowupHeader, "* ", bank[1], "\n", "* ", bank[2]>>
            /\ IsPrefix(GeneratorText.val, response.val)
            /\ \A j \in 1..Len(response.val) : response.val[j] # bank[3]

\* C21 witness: add_followup ran for itinerary_planning and the response
\* ends with that bank's second question.
C21_Witness ==
    /\ AugmenterRan
    /\ state.intent = "itinerary_planning"
    /\ response.val[Len(response.val)] =
          "Are there any specific must-see attractions on your list?"

\* an entry of a history is a turn of the user or of the assistant
IsTurn(msg) == "role" \in DOMAIN msg /\ msg.role \in {"user", "assistant"}

\* the role and the content of an entry
Turn(msg) == [role |-> msg.role, content |-> msg.content]

\* the turns of a history, in its order
Turns(history) ==
    LET kept == SelectSeq(history, IsTurn)
    IN  [i \in 1..Len(kept) |-> Turn(kept[i])]

\* C22: the history held in the state is the role and content of exactly
\* the entries of the passed history whose role is user or assistant, in
\* the passed order, the other entries being left out; and from the start
\* of the call to its return no step changes the passed history or the
\* history held in the state.
C22_HistoryFiltered ==
    /\ []((pc # "idle" /\ ~HistoryRaises(req.conversation_history)) =>
             state.conversation_history = Turns(req.conversation_history))
    /\ [][(pc # "idle" /\ pc' # "idle") =>
             /\ req'.conversation_history = req.conversation_history
             /\ "conversation_history" \in DOMAIN state =>
                   state'.conversation_history = state.conversation_history
         ]_vars

\* C22 witness: a call has returned whose history held a system entry
\* between turns: the state holds the turns before and after it, in order.
C22_Witness ==
    /\ pc = "returned"
    /\ Len(req.conversation_history) = 3
    /\ req.conversation_history[1].role = "assistant"
    /\ req.conversation_history[2].role = "system"
    /\ req.conversation_history[3].role = "user"
    /\ state.conversation_history =
          <<req.conversation_history[1], req.conversation_history[3]>>

\* C23: the classifier's call receives two messages, the fixed system
\* prompt and the current message, and a call with the same message and any
\* other history sends the same two messages and, on the same reply, leaves
\* the same intent, confidence and entities in the state.
C23_ClassifierIgnoresHistory ==
    Len(calls) >= 1 =>
        /\ calls[1].messages =
              <<[role |-> "system", content |-> Str(<<ClassifierPrompt>>)],
                [role |-> "user", content |-> req.message]>>
        /\ \A history \in SmallHistories :
              ~HistoryRaises(history) =>
                 LET other == initial_state(req.message, req.session_id, history)
                 IN  /\ classifier_messages(other) = calls[1].messages
                     /\ ClassifierReturned =>
                           LET after == analyze_travel_intent(
                                            other, calls[1].reply.content)
                           IN  /\ after.intent = state.intent
                               /\ after.confidence = state.confidence
                               /\ after.entities = state.entities

\* C23 witness: a call whose history holds a turn has been classified.
C23_Witness ==
    /\ ClassifierReturned
    /\ state.conversation_history # <<>>
    /\ state.intent = "budget_planning"
    /\ Len(calls[1].messages) = 2

====
